---- MODULE Spec2Model ----
(***************************************************************************)
(* Model of src/dev-server.py: a static-file HTTP server that adds no-cache *)
(* headers to every response and rewrites the module script tag of         *)
(* index.html with a timestamp query on every entry-point request.         *)
(*                                                                         *)
(* Text is modelled as sequences of tokens.  A token is a run of           *)
(* characters that the rewrite pattern either matches as a whole or not at *)
(* all; the double quote, the question mark and each white-space character *)
(* are tokens of their own, because the pattern tells them apart.  File    *)
(* content is a sequence of byte tokens: an ASCII run stands for its own   *)
(* bytes, and every byte of a multi-byte UTF-8 sequence is one token.      *)
(***************************************************************************)
EXTENDS Integers, Sequences, FiniteSets, TLC

VARIABLES
  server,   \* "init" | "serving" | "stopped" | "bindfail": the __main__ block
  cwd,      \* the process's working directory (os.getcwd())
  file,     \* index.html in the working directory: [kind, frags]
  clock,    \* the wall clock, in whole seconds (int(time.time()))
  pc,       \* "idle" | "accepted" | "responded": the accept loop's position
  conn,     \* the request read from the accepted connection
  wire,     \* what the handler's wfile.write calls delivered on the connection
  outcome,  \* "none" | "done" (handler returned) | the exception that escaped it
  calls     \* the routines the handler entered while serving conn

vars == <<server, cwd, file, clock, pc, conn, wire, outcome, calls>>

---------------------------------------------------------------------------
(* Bounds of the model.                                                    *)

\* Most fragments an index.html is made of.
MaxFrags == 2
\* The first clock reading; the scenario of the specification sits one above.
StartClock == 1699999999
\* How many seconds the clock may advance.
MaxTicks == 1
\* wfile.write calls of one request that may raise: any of the first MaxWrites.
MaxWrites == 4

---------------------------------------------------------------------------
(* Tokens.                                                                 *)

Q   == "\""
SP  == " "
NL  == "\n"
CR  == "\r"
QM  == "?"
SCRIPT == "<script"
TYPEEQ == "type="
MODULE_ == "module"
SRCEQ  == "src="
APPJS  == "js/app.js"
GT  == ">"
X   == "x"
\* U+FEFF and U+00E9 as characters, and their UTF-8 bytes.
BOMCHAR == "U+FEFF"
EACUTE  == "U+00E9"
BOMBYTES == <<"EF", "BB", "BF">>
EBYTES   == <<"C3", "A9">>
\* A byte that starts no UTF-8 sequence.
BADBYTE == "FF"

DigitChars == <<"0", "1", "2", "3", "4", "5", "6", "7", "8", "9">>

\* str(n) for an int: the decimal digits, a minus sign first when negative.
RECURSIVE str_nat(_)
str_nat(n) ==
  IF n < 10 THEN <<DigitChars[n + 1]>>
  ELSE str_nat(n \div 10) \o <<DigitChars[(n % 10) + 1]>>
str_int(n) == IF n < 0 THEN <<"-">> \o str_nat(0 - n) ELSE str_nat(n)

\* len() of the bytes one byte token stands for.
TokLen(t) ==
  CASE t = SCRIPT -> 7
    [] t = TYPEEQ -> 5
    [] t = MODULE_ -> 6
    [] t = SRCEQ -> 4
    [] t = APPJS -> 9
    [] t = "v=" -> 2
    [] OTHER -> 1

\* len(bs): the sum of the tokens' lengths, by halves.
RECURSIVE ByteLen(_)
ByteLen(bs) ==
  IF Len(bs) = 0 THEN 0
  ELSE IF Len(bs) = 1 THEN TokLen(bs[1])
  ELSE LET half == Len(bs) \div 2 IN
    ByteLen(SubSeq(bs, 1, half)) + ByteLen(SubSeq(bs, half + 1, Len(bs)))

---------------------------------------------------------------------------
(* The fragments index.html is written from, as bytes on disk.             *)

TagHead(ws) == <<SCRIPT>> \o ws \o <<TYPEEQ, Q, MODULE_, Q>> \o ws \o <<SRCEQ, Q, APPJS>>

FragNames == {"plain", "stale", "crlf", "others", "bom", "cr", "bad"}

FragBytes(f) ==
  CASE f = "plain" -> TagHead(<<SP>>) \o <<Q, GT>>
    [] f = "stale" -> TagHead(<<SP>>) \o <<QM, "v=">> \o str_int(1699999999) \o <<Q, GT>>
    [] f = "crlf"  -> TagHead(<<CR, NL>>) \o <<Q, GT, CR, NL>>
    [] f = "others" -> <<SCRIPT, SP, SRCEQ, Q, APPJS, Q, SP, TYPEEQ, Q, MODULE_, Q, GT>>
                       \o <<SCRIPT, SP, SRCEQ, Q, APPJS, Q, GT>>
                       \o TagHead(<<SP>>) \o <<X, Q, GT, SP, APPJS, SP>> \o EBYTES
    [] f = "bom" -> BOMBYTES
    [] f = "cr"  -> <<X, CR, NL, X, CR, X>>
    [] f = "bad" -> <<BADBYTE>>

RECURSIVE Flatten(_)
Flatten(fs) == IF fs = <<>> THEN <<>> ELSE FragBytes(Head(fs)) \o Flatten(Tail(fs))

---------------------------------------------------------------------------
(* Reading index.html: open(html_path, 'r', encoding='utf-8') and f.read(). *)

NoExc == ""

CwdNames == {"/srv/app", "/srv/<U+30B5>"}
\* Whether a token of a message can be encoded as latin-1.
Latin1(t) == t # "/srv/<U+30B5>"

html_path(d) == <<d, "/index.html">>

\* The strict UTF-8 decoder over the byte tokens: TRUE when every lead byte
\* has its continuation bytes and every other byte is ASCII.
utf8_valid(bs) ==
  \A i \in 1..Len(bs) :
    CASE bs[i] = "EF" -> i + 2 <= Len(bs) /\ SubSeq(bs, i, i + 2) = BOMBYTES
      [] bs[i] = "C3" -> i + 1 <= Len(bs) /\ SubSeq(bs, i, i + 1) = EBYTES
      [] bs[i] = "BB" -> i > 1 /\ bs[i - 1] = "EF"
      [] bs[i] = "BF" -> i > 2 /\ bs[i - 1] = "BB" /\ bs[i - 2] = "EF"
      [] bs[i] = "A9" -> i > 1 /\ bs[i - 1] = "C3"
      [] bs[i] = BADBYTE -> FALSE
      [] OTHER -> TRUE

IsLeadOrAscii(b) == b \notin {"BB", "BF", "A9"}
CharOf(b) == IF b = "EF" THEN BOMCHAR ELSE IF b = "C3" THEN EACUTE ELSE b

\* bytes.decode('utf-8') of valid bytes: one character for each sequence.
utf8_decode(bs) ==
  LET leads == SelectSeq(bs, IsLeadOrAscii) IN
    [i \in 1..Len(leads) |-> CharOf(leads[i])]

\* str.encode('utf-8'), by halves.
RECURSIVE utf8_encode(_)
utf8_encode(cs) ==
  IF Len(cs) = 0 THEN <<>>
  ELSE IF Len(cs) = 1
    THEN IF cs[1] = BOMCHAR THEN BOMBYTES
         ELSE IF cs[1] = EACUTE THEN EBYTES
         ELSE cs
  ELSE LET half == Len(cs) \div 2 IN
    utf8_encode(SubSeq(cs, 1, half)) \o utf8_encode(SubSeq(cs, half + 1, Len(cs)))

\* Text mode with newline=None: "\r\n" and a lone "\r" are read as "\n".  A
\* "\n" right after a "\r" is dropped and every "\r" becomes "\n".
AfterCR == "\r\n"
NotAfterCR(c) == c # AfterCR
universal_newlines(cs) ==
  LET marked == [i \in 1..Len(cs) |->
                   IF cs[i] = NL /\ i > 1 /\ cs[i - 1] = CR THEN AfterCR
                   ELSE IF cs[i] = CR THEN NL
                   ELSE cs[i]]
  IN SelectSeq(marked, NotAfterCR)

\* The exception open() or read() raises for index.html, NoExc when neither does.
open_read_exc(f) ==
  CASE f.kind = "absent" -> "FileNotFoundError"
    [] f.kind = "noperm" -> "PermissionError"
    [] f.kind = "dir"    -> "IsADirectoryError"
    [] f.kind = "loop"   -> "OSError"
    [] f.kind = "file"   -> IF utf8_valid(Flatten(f.frags)) THEN NoExc ELSE "UnicodeDecodeError"

\* The str content read when nothing is raised.
open_read(f) == universal_newlines(utf8_decode(Flatten(f.frags)))

\* str(e) of the exceptions the handler can catch.
str_exc(e, d) ==
  CASE e = "PermissionError"    -> <<"[Errno 13] Permission denied: '">> \o html_path(d) \o <<"'">>
    [] e = "IsADirectoryError"  -> <<"[Errno 21] Is a directory: '">> \o html_path(d) \o <<"'">>
    [] e = "OSError"            -> <<"[Errno 40] Too many levels of symbolic links: '">> \o html_path(d) \o <<"'">>
    [] e = "UnicodeDecodeError" -> <<"'utf-8' codec can't decode byte 0xff: invalid start byte">>
    [] e = "BrokenPipeError"    -> <<"[Errno 32] Broken pipe">>
    [] OTHER -> <<e>>

---------------------------------------------------------------------------
(* The substitution: re.sub(pattern, rf'\1?v={timestamp}\3', content).      *)

\* \s
IsSpace(t) == t \in {SP, NL, CR}

Least(S) == CHOOSE x \in S : \A y \in S : x <= y

\* The first index at or after i that holds no white space.
SkipSpaces(s, i) == Least({j \in i..(Len(s) + 1) : j > Len(s) \/ ~IsSpace(s[j])})

LitAt(s, i, lit) == i + Len(lit) - 1 <= Len(s) /\ SubSeq(s, i, i + Len(lit) - 1) = lit

\* Group 1, (<script\s+type="module"\s+src="js/app\.js), matched at i: the index
\* right after it, or 0 when it does not match there.
Group1End(s, i) ==
  IF ~(LitAt(s, i, <<SCRIPT>>) /\ i + 1 <= Len(s) /\ IsSpace(s[i + 1])) THEN 0
  ELSE LET b == SkipSpaces(s, i + 1) IN
    IF ~(LitAt(s, b, <<TYPEEQ, Q, MODULE_, Q>>) /\ b + 4 <= Len(s) /\ IsSpace(s[b + 4])) THEN 0
    ELSE LET d == SkipSpaces(s, b + 4) IN
      IF LitAt(s, d, <<SRCEQ, Q, APPJS>>) THEN d + 3 ELSE 0

\* The first index at or after j that holds a double quote, or 0.
FirstQuote(s, j) ==
  LET quotes == {n \in j..Len(s) : s[n] = Q} IN
    IF quotes = {} THEN 0 ELSE Least(quotes)

\* The whole pattern matched at i: the index of group 3, the closing quote, or 0.
\* Group 2, (\?[^"]*)?, is greedy: it runs to the first quote after the "?".
MatchEnd(s, i) ==
  LET e == Group1End(s, i) IN
    IF e = 0 \/ e > Len(s) THEN 0
    ELSE IF s[e] = Q THEN e
    ELSE IF s[e] = QM THEN FirstQuote(s, e + 1)
    ELSE 0

\* The replacement as it would be with \1\2?v={timestamp}\3 for template: the
\* new query is appended to the one that is there.
ReplacementKeepingQuery(s, i, g, t) ==
  SubSeq(s, i, MatchEnd(s, i) - 1) \o <<QM, "v=">> \o str_int(t) \o <<Q>>

\* The replacement template \1?v={timestamp}\3, group 1 being s[i..g-1].
Replacement(s, i, g, t) == SubSeq(s, i, g - 1) \o <<QM, "v=">> \o str_int(t) \o <<Q>>

\* re.sub scanning from index i: the leftmost match at or after i is replaced
\* and the scan goes on right after it, so that matches never overlap.
RECURSIVE SubFrom(_, _, _)
SubFrom(s, i, t) ==
  LET starts == {j \in i..Len(s) : MatchEnd(s, j) # 0} IN
    IF starts = {} THEN SubSeq(s, i, Len(s))
    ELSE LET j == Least(starts) IN
      SubSeq(s, i, j - 1) \o Replacement(s, j, Group1End(s, j), t)
        \o SubFrom(s, MatchEnd(s, j) + 1, t)

re_sub(s, t) == SubFrom(s, 1, t)

\* The timestamp as it would be if computed once, when the module is loaded.
timestamp_at_startup(now) == StartClock

\* timestamp = int(time.time())
timestamp(now) == now

---------------------------------------------------------------------------
(* The response stream.  What is written to the connection is a sequence   *)
(* of items: a status line, a header line, the blank line that ends a      *)
(* header block, a body.                                                   *)

StatusLine(code, msg) == [k |-> "status", code |-> code, name |-> "", text |-> msg]
HeaderLine(key, val)  == [k |-> "header", code |-> 0, name |-> key, text |-> val]
BlankLine             == [k |-> "end", code |-> 0, name |-> "", text |-> <<>>]
BodyBytes(bs)         == [k |-> "body", code |-> 0, name |-> "", text |-> bs]

\* The handler object while one request is served: the request line's parts,
\* _headers_buffer, what wfile has delivered, the number of wfile.write calls
\* made, the exception being raised (NoExc when none) and the routines entered.
NewHandler(r) ==
  [command |-> r.method, path |-> r.path, version |-> r.version,
   buf |-> <<>>, wire |-> <<>>, nw |-> 0, exc |-> NoExc, calls |-> {}]

Enter(h, routine) == [h EXCEPT !.calls = @ \cup {routine}]

\* self.wfile.write(data): the calls numbered in fails raise and deliver nothing.
wfile_write(h, data, fails) ==
  IF h.exc # NoExc THEN h
  ELSE IF h.nw + 1 \in fails
    THEN [h EXCEPT !.nw = @ + 1, !.exc = "BrokenPipeError"]
    ELSE [h EXCEPT !.nw = @ + 1, !.wire = @ \o data]

\* BaseHTTPRequestHandler.send_response_only: the status line is encoded as
\* latin-1, strictly, and appended to the headers buffer.
send_response_only(h, code, msg) ==
  IF h.exc # NoExc \/ h.version = "HTTP/0.9" THEN h
  ELSE IF \E j \in 1..Len(msg) : ~Latin1(msg[j])
    THEN [h EXCEPT !.exc = "UnicodeEncodeError"]
    ELSE [h EXCEPT !.buf = Append(@, StatusLine(code, msg))]

\* BaseHTTPRequestHandler.send_header
send_header(h, key, val) ==
  IF h.exc # NoExc \/ h.version = "HTTP/0.9" THEN h
  ELSE [h EXCEPT !.buf = Append(@, HeaderLine(key, val))]

\* BaseHTTPRequestHandler.send_response: the status line, Server and Date.
send_response(h, code, msg) ==
  send_header(send_header(send_response_only(h, code, msg),
                          "Server", <<"version_string()">>),
              "Date", <<"date_time_string()">>)

\* BaseHTTPRequestHandler.flush_headers: the buffer is emptied only after the
\* write returned.
flush_headers(h, fails) ==
  LET w == wfile_write(h, h.buf, fails) IN
    IF w.exc = NoExc THEN [w EXCEPT !.buf = <<>>] ELSE w

\* BaseHTTPRequestHandler.end_headers, reached through super().end_headers().
base_end_headers(h, fails) ==
  IF h.exc # NoExc \/ h.version = "HTTP/0.9" THEN h
  ELSE flush_headers([h EXCEPT !.buf = Append(@, BlankLine)], fails)

CacheControlValue == <<"no-store, no-cache, must-revalidate, max-age=0">>

\* end_headers as it would be with the Pragma and Expires lines left out.
end_headers_cache_control_only(h, fails) ==
  base_end_headers(send_header(h, "Cache-Control", CacheControlValue), fails)

\* CacheBustingHandler.end_headers
end_headers(h, fails) ==
  base_end_headers(
    send_header(send_header(send_header(h,
      "Cache-Control", CacheControlValue),
      "Pragma", <<"no-cache">>),
      "Expires", <<"0">>),
    fails)

\* The page send_error formats from error_message_format.
ErrorPage(code, msg) == <<"<h1>Error response</h1>">> \o str_int(code) \o msg

\* BaseHTTPRequestHandler.send_error(code, message), for the codes used here
\* (none of 204, 205, 304, all of them at least 200).
send_error(h, code, msg, fails) ==
  LET h1 == send_response(Enter(h, "send_error"), code, msg)
      h2 == send_header(h1, "Connection", <<"close">>)
      h3 == send_header(h2, "Content-Type", <<"text/html;charset=utf-8">>)
      h4 == send_header(h3, "Content-Length", <<"str(len(body))">>)
      h5 == end_headers(h4, fails)
  IN IF h.command # "HEAD"
       THEN wfile_write(h5, <<BodyBytes(ErrorPage(code, msg))>>, fails)
       ELSE h5

---------------------------------------------------------------------------
(* CacheBustingHandler.serve_cache_busted_html                             *)

\* The try block, lines 44-67, once the file has been read as content.
SendRewritten(h, content, now, fails) ==
  LET out == re_sub(content, timestamp(now))
      h1 == send_response(h, 200, <<"OK">>)
      h2 == send_header(h1, "Content-Type", <<"text/html; charset=utf-8">>)
      h3 == send_header(h2, "Content-Length", str_int(ByteLen(utf8_encode(out))))
      h4 == end_headers(h3, fails)
  IN wfile_write(h4, <<BodyBytes(utf8_encode(out))>>, fails)

TryBlock(h, f, now, fails) ==
  IF open_read_exc(f) # NoExc
    THEN [h EXCEPT !.exc = open_read_exc(f)]
    ELSE SendRewritten(h, open_read(f), now, fails)

\* The except clauses as they would be without except FileNotFoundError.
except_clauses_without_not_found(t, d, fails) ==
  IF t.exc = NoExc THEN t
  ELSE send_error([t EXCEPT !.exc = NoExc], 500, str_exc(t.exc, d), fails)

\* The except clauses, lines 69-72, t being the handler as the try block
\* leaves it.
except_clauses(t, d, fails) ==
  IF t.exc = NoExc THEN t
  ELSE IF t.exc = "FileNotFoundError"
    THEN send_error([t EXCEPT !.exc = NoExc], 404, <<"index.html not found">>, fails)
    ELSE send_error([t EXCEPT !.exc = NoExc], 500, str_exc(t.exc, d), fails)

serve_cache_busted_html(h, f, d, now, fails) ==
  except_clauses(TryBlock(Enter(h, "serve_cache_busted_html"), f, now, fails), d, fails)

---------------------------------------------------------------------------
(* SimpleHTTPRequestHandler, reached through super().do_GET() and, for     *)
(* HEAD, directly: the generic static-file serving.                        *)

\* The other files of the working directory: style.css is there, nothing else.
StyleBytes == <<X, SP, X>>

\* translate_path: the query and the fragment are abandoned, and the words
\* between the slashes name the file under the working directory.
RECURSIVE PathPart(_)
PathPart(p) ==
  IF p = <<>> \/ Head(p) \in {"?", "#"} THEN <<>> ELSE <<Head(p)>> \o PathPart(Tail(p))

IsWord(t) == t # "/"
translate_path(p) == SelectSeq(PathPart(p), IsWord)

\* What the translated path names on disk.
Resolve(words, f) ==
  IF words = <<>> THEN [kind |-> "dir", frags |-> <<>>]
  ELSE IF words = <<"index.html">> THEN f
  ELSE IF words = <<"style.css">> THEN [kind |-> "css", frags |-> <<>>]
  ELSE [kind |-> "absent", frags |-> <<>>]

\* The test send_head makes of <directory>/index.html before it serves it:
\* os.path.isfile, or os.path.exists in older releases of the library.
IndexFound(f, probe) ==
  IF probe = "isfile" THEN f.kind \in {"file", "noperm"}
  ELSE f.kind \in {"file", "noperm", "dir"}

\* send_head for a path that open(path, 'rb') is tried on.
SendFile(h, target, ctype, fails) ==
  IF target.kind \notin {"file", "css"}
    THEN [h |-> send_error(h, 404, <<"File not found">>, fails), f |-> <<>>]
    ELSE LET bytes == IF target.kind = "css" THEN StyleBytes ELSE Flatten(target.frags)
             h1 == send_response(h, 200, <<"OK">>)
             h2 == send_header(h1, "Content-type", ctype)
             h3 == send_header(h2, "Content-Length", str_int(ByteLen(bytes)))
             h4 == send_header(h3, "Last-Modified", <<"date_time_string(st_mtime)">>)
         IN [h |-> end_headers(h4, fails), f |-> bytes]

\* list_directory
ListDirectory(h, fails) ==
  LET h0 == Enter(h, "list_directory")
      h1 == send_response(h0, 200, <<"OK">>)
      h2 == send_header(h1, "Content-type", <<"text/html; charset=utf-8">>)
      h3 == send_header(h2, "Content-Length", <<"str(len(encoded))">>)
  IN [h |-> end_headers(h3, fails), f |-> <<"<h1>Directory listing</h1>">>]

\* The 301 a directory named without a trailing slash is answered with.
Redirect(h, fails) ==
  LET h1 == send_response(h, 301, <<"Moved Permanently">>)
      h2 == send_header(h1, "Location", <<"new_url">>)
      h3 == send_header(h2, "Content-Length", <<"0">>)
  IN [h |-> end_headers(h3, fails), f |-> <<>>]

guess_type(words) ==
  IF words = <<"style.css">> THEN <<"text/css">>
  ELSE IF words = <<"index.html">> THEN <<"text/html">>
  ELSE <<"application/octet-stream">>

\* SimpleHTTPRequestHandler.send_head: the handler after it, and the bytes of
\* the file object it returns (none when it returns None).
send_head(h, f, probe, fails) ==
  LET words  == translate_path(h.path)
      target == Resolve(words, f)
      part   == PathPart(h.path)
      h0     == Enter(h, "send_head")
  IN IF target.kind = "dir"
       THEN IF part[Len(part)] # "/" THEN Redirect(h0, fails)
            ELSE IF IndexFound(Resolve(words \o <<"index.html">>, f), probe)
              THEN SendFile(h0, Resolve(words \o <<"index.html">>, f), <<"text/html">>, fails)
              ELSE ListDirectory(h0, fails)
       ELSE SendFile(h0, target, guess_type(words), fails)

\* SimpleHTTPRequestHandler.do_GET: send_head, then copyfile.
simple_do_GET(h, f, probe, fails) ==
  LET r == send_head(h, f, probe, fails) IN
    IF r.f # <<>> THEN wfile_write(r.h, <<BodyBytes(r.f)>>, fails) ELSE r.h

\* SimpleHTTPRequestHandler.do_HEAD
simple_do_HEAD(h, f, probe, fails) == send_head(h, f, probe, fails).h

---------------------------------------------------------------------------
(* CacheBustingHandler.do_GET and the dispatch of handle_one_request.      *)

EntryPaths == {<<"/">>, <<"/", "index.html">>}

do_GET(h, f, d, now, probe, fails) ==
  IF h.path \in EntryPaths
    THEN serve_cache_busted_html(h, f, d, now, fails)
    ELSE simple_do_GET(Enter(h, "super().do_GET"), f, probe, fails)

handle_one_request(h, f, d, now, probe, fails) ==
  IF h.command = "GET" THEN do_GET(h, f, d, now, probe, fails)
  ELSE IF h.command = "HEAD" THEN simple_do_HEAD(h, f, probe, fails)
  ELSE send_error(h, 501, <<"Unsupported method">>, fails)

---------------------------------------------------------------------------
(* The state machine: the __main__ block, the accept loop, the environment. *)

Paths ==
  { <<"/">>, <<"/", "index.html">>, <<"/", "?", "x=1">>,
    <<"/", "index.html", "#", "top">>, <<"/", "style.css">>, <<"/", "missing.txt">> }

Request(m, p, v) == [method |-> m, path |-> p, version |-> v]

\* The request lines a client sends.  An HTTP/0.9 request line is a GET with
\* no version, and is answered without status line or headers.
Requests ==
  {Request("GET", p, "HTTP/1.1") : p \in Paths}
    \cup {Request("HEAD", p, "HTTP/1.1") : p \in {<<"/">>, <<"/", "missing.txt">>}}
    \cup {Request("POST", <<"/">>, "HTTP/1.1"), Request("GET", <<"/">>, "HTTP/0.9")}

\* The wfile.write calls of one request that raise: none, one alone (the
\* failure passes), or every one from some call on (the peer is gone).
FailPatterns ==
  {{}} \cup {{n} : n \in 1..MaxWrites} \cup {n..MaxWrites : n \in 1..MaxWrites}

\* The releases of the library differ only in how a directory named
\* index.html is probed.
Probes(f) == IF f.kind = "dir" THEN {"isfile", "exists"} ELSE {"isfile"}

NoConn == [method |-> "", path |-> <<>>, version |-> ""]

RECURSIVE SeqsUpTo(_, _)
SeqsUpTo(S, n) ==
  IF n = 0 THEN {<<>>}
  ELSE LET shorter == SeqsUpTo(S, n - 1) IN
    shorter \cup {Append(q, x) : q \in shorter, x \in S}

NoFile(kind) == [kind |-> kind, frags |-> <<>>]
Files ==
  {NoFile(kd) : kd \in {"absent", "noperm", "dir", "loop"}}
    \cup {[kind |-> "file", frags |-> fs] : fs \in SeqsUpTo(FragNames, MaxFrags) \ {<<>>}}

Init ==
  /\ server = "init"
  /\ cwd \in CwdNames
  /\ file \in Files
  /\ clock = StartClock
  /\ pc = "idle"
  /\ conn = NoConn
  /\ wire = <<>>
  /\ outcome = "none"
  /\ calls = {}

\* ReusableTCPServer(("", port), CacheBustingHandler): the bind succeeds, or
\* raises OSError and the process ends.
Bind ==
  /\ server = "init"
  /\ \E ok \in BOOLEAN : server' = IF ok THEN "serving" ELSE "bindfail"
  /\ UNCHANGED <<cwd, file, clock, pc, conn, wire, outcome, calls>>

\* KeyboardInterrupt in serve_forever: the with block closes the socket.
Interrupt ==
  /\ server = "serving"
  /\ server' = "stopped"
  /\ pc' = "idle" /\ conn' = NoConn /\ wire' = <<>> /\ outcome' = "none" /\ calls' = {}
  /\ UNCHANGED <<cwd, file, clock>>

\* The developer edits index.html: creates it, appends to it, removes it, or
\* replaces it by something that cannot be read.
EditFile ==
  /\ pc \in {"idle", "accepted"}
  /\ \/ /\ file.kind = "absent"
        /\ \E fr \in FragNames : file' = [kind |-> "file", frags |-> <<fr>>]
     \/ /\ file.kind = "file" /\ Len(file.frags) < MaxFrags
        /\ \E fr \in FragNames : file' = [file EXCEPT !.frags = Append(@, fr)]
     \/ /\ file.kind # "absent"
        /\ file' = NoFile("absent")
     \/ /\ file.kind = "absent"
        /\ \E kd \in {"noperm", "dir", "loop"} : file' = NoFile(kd)
  /\ UNCHANGED <<server, cwd, clock, pc, conn, wire, outcome, calls>>

Tick ==
  /\ pc \in {"idle", "accepted"}
  /\ clock < StartClock + MaxTicks
  /\ clock' = clock + 1
  /\ UNCHANGED <<server, cwd, file, pc, conn, wire, outcome, calls>>

\* get_request: a connection is accepted and its request line read.
Accept ==
  /\ server = "serving" /\ pc = "idle"
  /\ \E r \in Requests : conn' = r
  /\ pc' = "accepted"
  /\ UNCHANGED <<server, cwd, file, clock, wire, outcome, calls>>

\* The serving loop as it would be if an exception that leaves the handler
\* were not caught: it ends serve_forever.
finish_request_uncaught(h) ==
  /\ wire' = h.wire
  /\ outcome' = IF h.exc = NoExc THEN "done" ELSE h.exc
  /\ calls' = h.calls
  /\ server' = IF h.exc = NoExc THEN server ELSE "stopped"

\* finish_request, h being the handler when it returns or raises: an
\* exception that leaves it is caught by the serving loop (handle_error),
\* which goes on.
finish_request(h) ==
  /\ wire' = h.wire
  /\ outcome' = IF h.exc = NoExc THEN "done" ELSE h.exc
  /\ calls' = h.calls
  /\ server' = server

\* The handler serves the request of the accepted connection.
Handle ==
  /\ server = "serving" /\ pc = "accepted"
  /\ \E fails \in FailPatterns, probe \in Probes(file) :
       finish_request(handle_one_request(NewHandler(conn), file, cwd, clock, probe, fails))
  /\ pc' = "responded"
  /\ UNCHANGED <<cwd, file, clock, conn>>

\* shutdown_request: the connection is closed and the loop accepts again.
ShutdownRequest ==
  /\ server = "serving" /\ pc = "responded"
  /\ pc' = "idle" /\ conn' = NoConn /\ wire' = <<>> /\ outcome' = "none" /\ calls' = {}
  /\ UNCHANGED <<server, cwd, file, clock>>

Next == Bind \/ Interrupt \/ EditFile \/ Tick \/ Accept \/ Handle \/ ShutdownRequest

Spec == Init /\ [][Next]_vars

---------------------------------------------------------------------------
(* What a client sees of a served request.                                 *)

Responded == server = "serving" /\ pc = "responded"
EntryGet  == Responded /\ conn.method = "GET" /\ conn.path \in {<<"/">>, <<"/", "index.html">>}

StatusAt == {i \in 1..Len(wire) : wire[i].k = "status"}
EndAt    == {i \in 1..Len(wire) : wire[i].k = "end"}
BodyAt   == {i \in 1..Len(wire) : wire[i].k = "body"}

Greatest(S) == CHOOSE x \in S : \A y \in S : y <= x

\* The code of the status line that item i of the stream belongs to, 0 when
\* no status line precedes it.
StatusOf(i) ==
  LET before == {j \in StatusAt : j <= i} IN
    IF before = {} THEN 0 ELSE wire[Greatest(before)].code

\* The items from the status line of item i up to item i.
BlockOf(i) ==
  LET before == {j \in StatusAt : j <= i} IN
    IF before = {} THEN SubSeq(wire, 1, i) ELSE SubSeq(wire, Greatest(before), i)

\* The bodies delivered after a 200 status line.
OkBodies == {wire[i].text : i \in {j \in BodyAt : StatusOf(j) = 200}}

\* The fragments that hold the target tag, and whether a file holds one.
TargetFrags == {"plain", "stale", "crlf"}
HasTarget(f) == f.kind = "file" /\ \E i \in 1..Len(f.frags) : f.frags[i] \in TargetFrags
ValidFile(f) == f.kind = "file" /\ \A i \in 1..Len(f.frags) : f.frags[i] # "bad"

\* The values of the src attributes of a document, in the order they appear:
\* for each src=" the tokens up to the next double quote.
SrcAt(s) == {p \in 1..Len(s) : s[p] = SRCEQ /\ p < Len(s) /\ s[p + 1] = Q}
ClosingQuote(s, p) ==
  LET later == {n \in (p + 2)..Len(s) : s[n] = Q} IN
    IF later = {} THEN Len(s) + 1
    ELSE CHOOSE n \in later : \A o \in later : n <= o
NthSrc(s, n) == CHOOSE p \in SrcAt(s) : Cardinality({o \in SrcAt(s) : o < p}) = n - 1
SrcValues(s) ==
  [n \in 1..Cardinality(SrcAt(s)) |->
     SubSeq(s, NthSrc(s, n) + 2, ClosingQuote(s, NthSrc(s, n)) - 1)]

\* The number a sequence of decimal digits writes, -1 when it is none.
DigitValue(c) ==
  CASE c = "0" -> 0 [] c = "1" -> 1 [] c = "2" -> 2 [] c = "3" -> 3 [] c = "4" -> 4
    [] c = "5" -> 5 [] c = "6" -> 6 [] c = "7" -> 7 [] c = "8" -> 8 [] c = "9" -> 9
    [] OTHER -> -1
RECURSIVE DecimalValue(_)
DecimalValue(ds) ==
  IF ds = <<>> THEN 0
  ELSE DecimalValue(SubSeq(ds, 1, Len(ds) - 1)) * 10 + DigitValue(ds[Len(ds)])
IsDecimalOf(ds, n) ==
  /\ Len(ds) \in 1..10
  /\ \A i \in 1..Len(ds) : DigitValue(ds[i]) >= 0
  /\ Len(ds) > 1 => ds[1] # "0"
  /\ DecimalValue(ds) = n

\* v is js/app.js?v=<n>, nothing before it and nothing after.
IsFreshSrc(v, n) ==
  /\ Len(v) > 3
  /\ SubSeq(v, 1, 3) = <<APPJS, QM, "v=">>
  /\ IsDecimalOf(SubSeq(v, 4, Len(v)), n)

\* The src values a fragment is written with; "fresh" stands for the value the
\* target tag is to be served with.
WrittenSrcs(fr) ==
  CASE fr \in TargetFrags -> <<"fresh">>
    [] fr = "others" -> <<"plain", "plain", "jsx">>
    [] OTHER -> <<>>
RECURSIVE ExpectedSrcs(_)
ExpectedSrcs(frs) ==
  IF frs = <<>> THEN <<>> ELSE WrittenSrcs(Head(frs)) \o ExpectedSrcs(Tail(frs))

\* The src values of body are those of the fragments, each target tag's being
\* js/app.js?v=<n> and every other one as written.
SrcsRewritten(body, frs, n) ==
  LET got == SrcValues(body)
      exp == ExpectedSrcs(frs)
  IN /\ Len(got) = Len(exp)
     /\ \A i \in 1..Len(exp) :
          CASE exp[i] = "fresh" -> IsFreshSrc(got[i], n)
            [] exp[i] = "plain" -> got[i] = <<APPJS>>
            [] exp[i] = "jsx"   -> got[i] = <<APPJS, X>>

---------------------------------------------------------------------------
(* C1. Every response carries the three no-cache headers.                  *)

NoCacheHeaders ==
  { HeaderLine("Cache-Control", <<"no-store, no-cache, must-revalidate, max-age=0">>),
    HeaderLine("Pragma", <<"no-cache">>),
    HeaderLine("Expires", <<"0">>) }

\* C1: every header block delivered on the connection, whatever the method,
\* the path and the outcome, holds Cache-Control, Pragma and Expires with the
\* no-cache values between its status line and its blank line; every status
\* line delivered is followed by such a block, and a request with an HTTP
\* version is answered by nothing that does not start with one.
C1_NoCacheHeadersOnEveryResponse ==
  /\ \A e \in EndAt : \A hd \in NoCacheHeaders :
       \E j \in 1..Len(BlockOf(e)) : BlockOf(e)[j] = hd
  /\ \A i \in StatusAt : \E e \in EndAt : e > i /\ StatusAt \cap (i + 1)..e = {}
  /\ (Responded /\ conn.version # "HTTP/0.9" /\ wire # <<>>) => wire[1].k = "status"

\* A delegated request for a file that is not there is answered 404, with the
\* three headers.
C1_Witness ==
  /\ Responded /\ outcome = "done"
  /\ conn = Request("GET", <<"/", "missing.txt">>, "HTTP/1.1")
  /\ wire[1].code = 404
  /\ \A hd \in NoCacheHeaders : \E j \in 1..Len(wire) : wire[j] = hd

---------------------------------------------------------------------------
(* C2. The target tag is served with src="js/app.js?v=<T>".                *)

FreshTag1700000000 ==
  << SCRIPT, SP, TYPEEQ, Q, MODULE_, Q, SP, SRCEQ, Q, APPJS, QM, "v=",
     "1", "7", "0", "0", "0", "0", "0", "0", "0", "0", Q, GT >>

\* C2: when index.html holds the target tag, with or without a query string
\* on its src, the body of the 200 response to GET / or GET /index.html has
\* every target tag's src equal to js/app.js?v=<T>, T the clock at the
\* request in decimal, the former query string gone; the other src
\* attributes are as written.  The two scenarios of the specification, at
\* clock 1700000000, give the tag shown above.
C2_TargetSrcRewritten ==
  /\ (EntryGet /\ HasTarget(file)) =>
       \A b \in OkBodies : SrcsRewritten(b, file.frags, clock)
  /\ (EntryGet /\ file.kind = "file" /\ file.frags \in {<<"plain">>, <<"stale">>}
        /\ clock = 1700000000) =>
       \A b \in OkBodies : b = FreshTag1700000000

\* The stale tag of the second scenario has been served at clock 1700000000.
C2_Witness ==
  /\ EntryGet /\ outcome = "done"
  /\ file = [kind |-> "file", frags |-> <<"stale">>]
  /\ clock = 1700000000
  /\ OkBodies = {FreshTag1700000000}

---------------------------------------------------------------------------
(* C5. No index.html: 404, and no generic serving.                         *)

\* C5: when index.html does not exist, GET / and GET /index.html enter
\* serve_cache_busted_html and send_error and nothing else, neither
\* super().do_GET nor send_head nor list_directory; every status
\* line delivered is 404 "index.html not found", every body delivered is the
\* error page with that message, and when no write failed the response is
\* there.
C5_MissingIndexIs404 ==
  (EntryGet /\ file.kind = "absent") =>
    /\ calls = {"serve_cache_busted_html", "send_error"}
    /\ \A i \in StatusAt :
         wire[i].code = 404 /\ wire[i].text = <<"index.html not found">>
    /\ \A i \in BodyAt :
         wire[i].text = <<"<h1>Error response</h1>", "4", "0", "4", "index.html not found">>
    /\ outcome = "done" => BodyAt # {}
    /\ (outcome = "done" /\ conn.version # "HTTP/0.9") => StatusAt # {}

C5_Witness ==
  /\ EntryGet /\ file.kind = "absent" /\ outcome = "done"
  /\ conn = Request("GET", <<"/">>, "HTTP/1.1")
  /\ wire[1].code = 404
  /\ "list_directory" \notin calls

---------------------------------------------------------------------------
(* C7. Serving a request never ends the server.                            *)

\* C7: the server leaves "serving" only by the interrupt, and fails to bind
\* only at startup; whatever a request ended in, a status or an exception out
\* of the handler, the connection is shut down next and the loop accepts the
\* following one.
C7_RequestsNeverStopServer ==
  /\ [][(server = "serving" /\ server' # "serving") => (server' = "stopped" /\ Interrupt)]_vars
  /\ [][server' = "bindfail" => server \in {"init", "bindfail"}]_vars
  /\ [][Responded => (server' = "serving" => pc' = "idle")]_vars
  /\ [](Responded => ENABLED ShutdownRequest)
  /\ []((server = "serving" /\ pc = "idle") => ENABLED Accept)

\* A request whose handler raised has been served and the server is serving.
C7_Witness ==
  /\ Responded /\ outcome = "UnicodeEncodeError"
  /\ server = "serving"

---------------------------------------------------------------------------
(* C9. Nothing of index.html or of the token is kept between requests.     *)

NotEOL(t) == t \notin {CR, NL}
\* The tokens of s that are inside no src value.
OutsideSrc(s) ==
  LET inside == {n \in 1..Len(s) :
                   \E p \in SrcAt(s) : p + 1 < n /\ n < ClosingQuote(s, p)}
      marked == [n \in 1..Len(s) |-> IF n \in inside THEN NL ELSE s[n]]
  IN SelectSeq(marked, NotEOL)

\* C9: after any edits of index.html and clock advances, the body of a 200
\* response to an entry-point GET is made of the file as it is on disk at
\* that request (the same tokens outside src values, line terminators
\* aside), with the src values rewritten by the clock at that request; and
\* serving a request leaves index.html as it was.
C9_FreshReadEveryRequest ==
  /\ [](EntryGet =>
         \A b \in OkBodies :
           /\ file.kind = "file"
           /\ SrcsRewritten(b, file.frags, clock)
           /\ OutsideSrc(b) = OutsideSrc(Flatten(file.frags)))
  /\ [][(pc = "accepted" /\ pc' = "responded") => (file' = file /\ clock' = clock)]_vars

\* The file was edited and the clock advanced before the request served.
C9_Witness ==
  /\ EntryGet /\ outcome = "done"
  /\ file = [kind |-> "file", frags |-> <<"bom", "stale">>]
  /\ clock = StartClock + 1
  /\ \E b \in OkBodies : SrcsRewritten(b, file.frags, StartClock + 1)

---------------------------------------------------------------------------
(* C3. The rewrite changes nothing but the src value of the target tags.   *)

\* The part of a target fragment up to the opening quote of its src value,
\* and the part from the closing quote on.
TargetPrefix(fr) ==
  LET bs == FragBytes(fr)
      p  == CHOOSE n \in SrcAt(bs) : TRUE
  IN SubSeq(bs, 1, p + 1)
TargetSuffix(fr) ==
  LET bs == FragBytes(fr)
      p  == CHOOSE n \in SrcAt(bs) : TRUE
  IN SubSeq(bs, ClosingQuote(bs, p), Len(bs))

\* body is the fragments one after the other, each as it is in the file but
\* for the src value of a target fragment, which may be anything.
RECURSIVE SameButTargetSrc(_, _)
SameButTargetSrc(frs, body) ==
  IF frs = <<>> THEN body = <<>>
  ELSE IF Head(frs) \notin TargetFrags
    THEN LET bs == FragBytes(Head(frs)) IN
      /\ LitAt(body, 1, bs)
      /\ SameButTargetSrc(Tail(frs), SubSeq(body, Len(bs) + 1, Len(body)))
    ELSE LET pre == TargetPrefix(Head(frs))
             suf == TargetSuffix(Head(frs))
             q   == ClosingQuote(body, Len(pre) - 1)
         IN /\ LitAt(body, 1, pre)
            /\ LitAt(body, q, suf)
            /\ SameButTargetSrc(Tail(frs), SubSeq(body, q + Len(suf), Len(body)))

\* C3: in the body of the 200 response to an entry-point GET, everything but
\* the src value of the tags that match the target pattern is exactly as in
\* the file: the other script tags, the other attributes, the other
\* occurrences of js/app.js and all the text around them.
C3_OnlyTargetSrcAltered ==
  (EntryGet /\ file.kind = "file") =>
    \A b \in OkBodies : SameButTargetSrc(file.frags, b)

\* The same for the files that hold no carriage return: there the code does
\* leave everything else as it is in the file.
NoCarriageReturn(f) == \A i \in 1..Len(f.frags) : f.frags[i] \notin {"crlf", "cr"}
OnlyTargetSrcAlteredWithoutCR ==
  (EntryGet /\ file.kind = "file" /\ NoCarriageReturn(file)) =>
    \A b \in OkBodies : SameButTargetSrc(file.frags, b)

---------------------------------------------------------------------------
(* C4. Without a target tag the file is served byte for byte.              *)

\* C4: when index.html is valid UTF-8 and holds no tag matching the target
\* pattern, the body of the 200 response to GET / or GET /index.html is the
\* file's bytes, also with CRLF or lone CR line endings or a byte-order mark.
C4_NoTagServedByteForByte ==
  (EntryGet /\ ValidFile(file) /\ ~HasTarget(file)) =>
    \A b \in OkBodies : b = Flatten(file.frags)

\* The same for the files that hold no carriage return, the byte-order mark
\* among them.
NoTagServedByteForByteWithoutCR ==
  (EntryGet /\ ValidFile(file) /\ ~HasTarget(file) /\ NoCarriageReturn(file)) =>
    \A b \in OkBodies : b = Flatten(file.frags)

---------------------------------------------------------------------------
(* C6. Any other failure of reading index.html is a 500 with its text.     *)

\* The description of what makes index.html unreadable.
FailureText(f, d) ==
  CASE f.kind = "noperm" -> <<"[Errno 13] Permission denied: '", d, "/index.html", "'">>
    [] f.kind = "dir"    -> <<"[Errno 21] Is a directory: '", d, "/index.html", "'">>
    [] f.kind = "loop"   -> <<"[Errno 40] Too many levels of symbolic links: '", d, "/index.html", "'">>
    [] OTHER -> <<"'utf-8' codec can't decode byte 0xff: invalid start byte">>

Unreadable(f) == f.kind \in {"noperm", "dir", "loop"} \/ (f.kind = "file" /\ ~ValidFile(f))

\* C6: when reading index.html fails with anything but file-not-found
\* (permission denied, a directory, invalid UTF-8, another I/O error), an
\* entry-point GET is answered with a 500 status line whose message is the
\* description of the failure, and with no other status; short of a
\* connection that can no longer be written to, the response is there.
C6_OtherFailureIs500 ==
  (EntryGet /\ Unreadable(file) /\ conn.version # "HTTP/0.9") =>
    /\ \A i \in StatusAt :
         wire[i].code = 500 /\ wire[i].text = FailureText(file, cwd)
    /\ outcome # "BrokenPipeError" => StatusAt # {}

---------------------------------------------------------------------------
(* C8. index.html is never served without the fresh query.                 *)

\* The request targets that name index.html of the working directory: / and
\* /index.html, and either followed by a query string or a fragment.
NamesEntryPoint(p) == PathPart(p) \in {<<"/">>, <<"/", "index.html">>}

\* C8: every 200 response to a GET whose target names the entry point, a
\* query string or a fragment after it or not, and whose body comes from
\* index.html, has each target tag's src equal to js/app.js?v=<clock>.
C8_EntryPointAlwaysRewritten ==
  (Responded /\ conn.method = "GET" /\ NamesEntryPoint(conn.path) /\ HasTarget(file)) =>
    \A b \in OkBodies : SrcsRewritten(b, file.frags, clock)

---------------------------------------------------------------------------
(* C10. One response for each entry-point request.                         *)

\* C10: an entry-point GET is answered by at most one status line, one header
\* block and one body; once a 200 status line has been delivered, no other
\* status line is delivered and send_error is not entered, a failed write of
\* the body included.
C10_ExactlyOneResponse ==
  EntryGet =>
    /\ Cardinality(StatusAt) <= 1
    /\ Cardinality(EndAt) <= 1
    /\ Cardinality(BodyAt) <= 1
    /\ (\E i \in StatusAt : wire[i].code = 200) => "send_error" \notin calls

====
